---- MODULE Spec2Model ----
(***************************************************************************)
(* Model of claude-code-server (claude-code-server/src/index.ts): startup   *)
(* with the CLAUDE_BIN check, the ListTools handler, the MCP CallTool       *)
(* handler, its prompt templates and the runClaudeCommand helper that       *)
(* spawns the Claude CLI, feeds it the prompt, collects its streams and     *)
(* enforces a timeout.                                                      *)
(*                                                                         *)
(* Text is a sequence of characters (one-character strings); a fixed piece *)
(* of a template is carried as one element holding the whole literal.      *)
(* Node's event loop runs one callback at a time, so every action below is *)
(* one callback (or the synchronous part of the request handler) run to    *)
(* completion, promise continuations included.                             *)
(***************************************************************************)
EXTENDS Integers, Sequences, FiniteSets, TLC

\* ------------------------------------------------------------------ bounds
\* Chunks one subprocess writes at most, over its two output streams.
MaxChunks == 2

\* ------------------------------------------------------------- text helpers
\* Characters String.prototype.trim() strips (the ones the model uses).
IsWhiteSpace(ch) == ch \in {" ", "\n"}

RECURSIVE TrimStart(_)
TrimStart(s) ==
  IF s = <<>> THEN <<>>
  ELSE IF IsWhiteSpace(Head(s)) THEN TrimStart(Tail(s)) ELSE s

RECURSIVE TrimEnd(_)
TrimEnd(s) ==
  IF s = <<>> THEN <<>>
  ELSE IF IsWhiteSpace(s[Len(s)]) THEN TrimEnd(SubSeq(s, 1, Len(s) - 1)) ELSE s

\* String.prototype.trim(): strips white space at both ends.
Trim(s) == TrimEnd(TrimStart(s))

\* Buffer.prototype.toString() of one chunk: UTF-8 decoding of the chunk's
\* bytes on their own.  Bytes are "a", " ", "\n" (ASCII), "e", "r" (ASCII),
\* "C3" (lead byte of a two-byte character) and "A9" (continuation byte).
\* A lead byte followed by a continuation byte is the character "e'"; a lead
\* byte without one, or a stray continuation byte, decodes to "U+FFFD".
RECURSIVE toString(_)
toString(bytes) ==
  IF bytes = <<>> THEN <<>>
  ELSE IF Head(bytes) = "C3"
    THEN IF Len(bytes) >= 2 /\ bytes[2] = "A9"
           THEN <<"e'">> \o toString(SubSeq(bytes, 3, Len(bytes)))
           ELSE <<"U+FFFD">> \o toString(Tail(bytes))
  ELSE IF Head(bytes) = "A9" THEN <<"U+FFFD">> \o toString(Tail(bytes))
  ELSE <<Head(bytes)>> \o toString(Tail(bytes))

\* The text a sequence of chunks amounts to when each chunk is decoded alone.
RECURSIVE DecodeEach(_)
DecodeEach(chunks) ==
  IF chunks = <<>> THEN <<>>
  ELSE toString(Head(chunks)) \o DecodeEach(Tail(chunks))

\* ---------------------------------------------------------------- messages
\* An error message or an output text: the fixed wording (kind), the exit
\* code or errno printed in it, the seconds printed in it, the variable text.
Msg(kind, code, secs, text) ==
  [kind |-> kind, code |-> code, secs |-> secs, text |-> text]

\* 5 * 60 * 1000 milliseconds.
timeoutMs == 5 * 60 * 1000

\* new Error(`Command timed out after ${timeoutMs / 1000} seconds`)
TimeoutError == Msg("Command timed out after", "", timeoutMs \div 1000, <<>>)

\* new Error(`Command failed with code ${code}: ${stderr}`)
ExitError(code, errText) == Msg("Command failed with code", code, 0, errText)

\* The system error of a failed spawn (err.message is `spawn <bin> <errno>`).
SpawnError(errno) == Msg("spawn", errno, 0, <<>>)

\* TypeError: Cannot read properties of undefined (reading '<prop>').
TypeError(prop) == Msg("TypeError: Cannot read properties of undefined", "", 0, <<prop>>)

\* "Unknown tool: " + name
UnknownToolMessage(name) == Msg("Unknown tool: ", "", 0, <<name>>)

\* The text a resolved runClaudeCommand promise carries.
Output(text) == Msg("output", "", 0, text)

\* McpError(code, message) as the caller receives it.
McpError(code, message) == [kind |-> "error", code |-> code, msg |-> message]

\* { content: [{ type: 'text', text: output }] }
ToolResponse(output) ==
  [kind |-> "result", content |-> << [type |-> "text", text |-> output.text] >>]

\* -------------------------------------------------------------- text codec
\* Text is a sequence of UTF-16 code units, as a JavaScript string is.  A
\* character outside the basic plane is a high surrogate followed by a low
\* one ("U+D83D", "U+DE00": U+1F600); a surrogate without its partner is a
\* lone surrogate.
HighSurrogates == {"U+D800", "U+D83D"}
LowSurrogates == {"U+DE00"}

\* UTF-8 bytes of one code unit on its own, as Buffer.from(text, 'utf8')
\* produces them.  "e'" is a two-byte character; a lone surrogate has no
\* UTF-8 form and is written as the bytes of U+FFFD.
Utf8(ch) ==
  CASE ch = "\n" -> <<10>>
    [] ch = " " -> <<32>>
    [] ch = "\"" -> <<34>>
    [] ch = "." -> <<46>>
    [] ch = "[" -> <<91>>
    [] ch = "]" -> <<93>>
    [] ch = "a" -> <<97>>
    [] ch = "c" -> <<99>>
    [] ch = "d" -> <<100>>
    [] ch = "e" -> <<101>>
    [] ch = "n" -> <<110>>
    [] ch = "r" -> <<114>>
    [] ch = "t" -> <<116>>
    [] ch = "u" -> <<117>>
    [] ch = "x" -> <<120>>
    [] ch = "e'" -> <<195, 169>>
    [] ch = "U+FFFD" -> <<239, 191, 189>>
    [] ch \in HighSurrogates \cup LowSurrogates -> <<239, 191, 189>>

\* The bytes the code unit at position i of text contributes: a surrogate
\* pair is one four-byte character, written at its high surrogate.
Utf8At(text, i) ==
  IF text[i] \in HighSurrogates /\ i < Len(text) /\ text[i + 1] \in LowSurrogates
    THEN <<240, 159, 152, 128>>
  ELSE IF text[i] \in LowSurrogates /\ i > 1 /\ text[i - 1] \in HighSurrogates
    THEN <<>>
  ELSE Utf8(text[i])

\* The bytes of positions lo..hi of text, by halves (a long text does not
\* nest deeply).
RECURSIVE Utf8Range(_, _, _)
Utf8Range(text, lo, hi) ==
  IF lo > hi THEN <<>>
  ELSE IF lo = hi THEN Utf8At(text, lo)
  ELSE Utf8Range(text, lo, (lo + hi) \div 2)
       \o Utf8Range(text, (lo + hi) \div 2 + 1, hi)

\* Buffer.from(text, 'utf8')
Utf8Bytes(text) == Utf8Range(text, 1, Len(text))

Base64Alphabet ==
  << "A","B","C","D","E","F","G","H","I","J","K","L","M","N","O","P",
     "Q","R","S","T","U","V","W","X","Y","Z","a","b","c","d","e","f",
     "g","h","i","j","k","l","m","n","o","p","q","r","s","t","u","v",
     "w","x","y","z","0","1","2","3","4","5","6","7","8","9","+","/" >>

B64(i) == Base64Alphabet[i + 1]

\* Buffer.prototype.toString('base64'): three bytes to four characters,
\* padded with "="; a long buffer is encoded by halves of whole groups.
RECURSIVE Base64(_)
Base64(b) ==
  IF b = <<>> THEN <<>>
  ELSE IF Len(b) = 1 THEN
    << B64(b[1] \div 4), B64((b[1] % 4) * 16), "=", "=" >>
  ELSE IF Len(b) = 2 THEN
    << B64(b[1] \div 4), B64((b[1] % 4) * 16 + b[2] \div 16),
       B64((b[2] % 16) * 4), "=" >>
  ELSE IF Len(b) = 3 THEN
    << B64(b[1] \div 4), B64((b[1] % 4) * 16 + b[2] \div 16),
       B64((b[2] % 16) * 4 + b[3] \div 64), B64(b[3] % 64) >>
  ELSE
    LET m == 3 * (((Len(b) + 2) \div 3) \div 2)
    IN Base64(SubSeq(b, 1, m)) \o Base64(SubSeq(b, m + 1, Len(b)))

encodeText(text) == Base64(Utf8Bytes(text))

\* The value of a Base64 character.
B64Index(ch) == CHOOSE i \in 0..63 : Base64Alphabet[i + 1] = ch

\* The bytes the g-th group of four characters of s stands for.
FromBase64At(s, g) ==
  LET c1 == s[4 * g - 3]
      c2 == s[4 * g - 2]
      c3 == s[4 * g - 1]
      c4 == s[4 * g]
      b1 == B64Index(c1) * 4 + B64Index(c2) \div 16
  IN IF c3 = "=" THEN << b1 >>
     ELSE IF c4 = "="
       THEN << b1, (B64Index(c2) % 16) * 16 + B64Index(c3) \div 4 >>
     ELSE << b1, (B64Index(c2) % 16) * 16 + B64Index(c3) \div 4,
             (B64Index(c3) % 4) * 64 + B64Index(c4) >>

RECURSIVE FromBase64Range(_, _, _)
FromBase64Range(s, lo, hi) ==
  IF lo > hi THEN <<>>
  ELSE IF lo = hi THEN FromBase64At(s, lo)
  ELSE FromBase64Range(s, lo, (lo + hi) \div 2)
       \o FromBase64Range(s, (lo + hi) \div 2 + 1, hi)

\* Buffer.from(encoded, 'base64'), for whole groups of four characters.
FromBase64(s) == FromBase64Range(s, 1, Len(s) \div 4)

\* The byte sequences of the characters of more than one byte the model has.
IsAt(b, i, bytes) ==
  /\ i >= 1
  /\ i + Len(bytes) - 1 <= Len(b)
  /\ SubSeq(b, i, i + Len(bytes) - 1) = bytes

\* Whether the byte at position i belongs to a character begun before it.
Continues(b, i) ==
  \/ IsAt(b, i - 1, <<195, 169>>)
  \/ \E k \in 1..2 : IsAt(b, i - k, <<239, 191, 189>>)
  \/ \E k \in 1..3 : IsAt(b, i - k, <<240, 159, 152, 128>>)

\* The code units the byte at position i of b decodes to: a well-formed
\* character at its first byte, nothing at its other bytes, U+FFFD at a
\* byte that is part of no well-formed character.
Utf8TextAt(b, i) ==
  IF b[i] < 128
    THEN << CHOOSE ch \in {"\n", " ", "\"", ".", "[", "]", "a", "c", "d", "e",
                           "n", "r", "t", "u", "x"} : Utf8(ch) = << b[i] >> >>
  ELSE IF IsAt(b, i, <<195, 169>>) THEN <<"e'">>
  ELSE IF IsAt(b, i, <<239, 191, 189>>) THEN <<"U+FFFD">>
  ELSE IF IsAt(b, i, <<240, 159, 152, 128>>) THEN <<"U+D83D", "U+DE00">>
  ELSE IF Continues(b, i) THEN <<>>
  ELSE <<"U+FFFD">>

RECURSIVE Utf8TextRange(_, _, _)
Utf8TextRange(b, lo, hi) ==
  IF lo > hi THEN <<>>
  ELSE IF lo = hi THEN Utf8TextAt(b, lo)
  ELSE Utf8TextRange(b, lo, (lo + hi) \div 2)
       \o Utf8TextRange(b, (lo + hi) \div 2 + 1, hi)

\* Buffer.prototype.toString('utf8') of a whole buffer.
Utf8Text(b) == Utf8TextRange(b, 1, Len(b))

decodeText(encoded) == Utf8Text(FromBase64(encoded))

\* ---------------------------------------------------------- prompt builder
\* Default of truncateIfNeeded's maxLength parameter.
maxLength == 10000

TruncationMarker ==
  << ".", ".", ".", " ", "[", "t", "r", "u", "n", "c", "a", "t", "e", "d", "]" >>

truncateIfNeeded(str) ==
  IF Len(str) > maxLength
    THEN SubSeq(str, 1, maxLength) \o TruncationMarker
    ELSE str

\* Argument values: a string, or undefined (the key is absent).
Undefined == [def |-> FALSE, text |-> <<>>]
Str(text) == [def |-> TRUE, text |-> text]

\* request.params.arguments: absent altogether, or a mapping of keys.
NoArguments == [given |-> FALSE, a |-> <<>>]
Arguments(a) == [given |-> TRUE, a |-> a]

\* `${v}` in a template literal.
Interpolate(v) == IF v.def THEN v.text ELSE <<"undefined">>

\* Mutant: the fallback whatever the value.
OrElseDropsValue(v, fallback) == <<fallback>>

\* `${v || fallback}`: the fallback for undefined and for the empty string.
OrElse(v, fallback) == IF v.def /\ v.text # <<>> THEN v.text ELSE <<fallback>>

\* `${v ?? fallback}`: the fallback for undefined only.
Coalesce(v, fallback) == IF v.def THEN v.text ELSE <<fallback>>

ToolNames ==
  { "explain_code", "review_code", "fix_code", "edit_code", "test_code",
    "simulate_command", "your_own_query" }

\* Mutant: no default case; a name that matches none runs a tool's case.
RouteNoDefault(name) == IF name \in ToolNames THEN name ELSE "simulate_command"

\* switch (name): the case a tool name selects.
Route(name) == IF name \in ToolNames THEN name ELSE "default"

\* The key whose .length the case reads before building the prompt
\* (simulate_command reads none).
LengthKey(name) ==
  CASE name \in {"explain_code", "review_code", "fix_code", "edit_code", "test_code"} -> "code"
    [] name = "your_own_query" -> "query"
    [] OTHER -> ""

\* The first key the case destructures from args.
FirstKey(name) ==
  CASE name = "simulate_command" -> "command"
    [] name = "your_own_query" -> "query"
    [] OTHER -> "code"

\* The exception the case throws before it calls runClaudeCommand, if any:
\* [thrown |-> BOOLEAN, err |-> message].
PromptThrows(name, args) ==
  IF ~args.given
    THEN [thrown |-> TRUE,
          err |-> Msg("TypeError: Cannot destructure property", "", 0, <<FirstKey(name)>>)]
  ELSE IF LengthKey(name) # "" /\ ~args.a[LengthKey(name)].def
    THEN [thrown |-> TRUE, err |-> TypeError("length")]
  ELSE [thrown |-> FALSE, err |-> Output(<<>>)]

\* The prompt of each case of the switch, for arguments that do not throw.
Prompt(name, args) ==
  LET a == args.a
      encodedCode == encodeText(truncateIfNeeded(a["code"].text))
  IN CASE name = "explain_code" ->
            <<"You are super professional engineer. Please kindly provide a detailed explanation of the following Base64 encoded code:\n\n">>
            \o encodedCode \o <<"\n\nAdditional context (if provided):\n">>
            \o OrElse(a["context"], "No additional context provided.")
       [] name = "review_code" ->
            <<"You are super professional engineer. Please review the following Base64 encoded code. Consider code readability, efficiency, potential bugs, and security vulnerabilities.\n\nCode:\n">>
            \o encodedCode \o <<"\n\nFocus areas (if provided):\n">>
            \o OrElse(a["focus_areas"], "No specific focus areas provided.")
       [] name = "fix_code" ->
            <<"You are super professional engineer. Please fix the following Base64 encoded code, addressing the issue described below:\n\nCode:\n">>
            \o encodedCode \o <<"\n\nIssue description:\n">>
            \o Coalesce(a["issue_description"], "No specific issue described.")
       [] name = "edit_code" ->
            <<"You are super professional engineer. Please edit the following Base64 encoded code according to the instructions provided:\n\nCode:\n">>
            \o encodedCode \o <<"\n\nInstructions:\n">>
            \o Coalesce(a["instructions"], "No specific instructions provided.")
       [] name = "test_code" ->
            <<"You are super professional engineer. Please generate tests for the following Base64 encoded code.\n\nCode:\n">>
            \o encodedCode \o <<"\n\nTest framework (if specified):\n">>
            \o OrElse(a["test_framework"], "default")
       [] name = "simulate_command" ->
            <<"You are super professional engineer. Simulate the execution of the following command:\n\nCommand: ">>
            \o Interpolate(a["command"]) \o <<"\n\nInput: ">>
            \o OrElse(a["input"], "No input provided.")
            \o <<"\n\nDescribe the expected behavior and output, without actually executing the command.">>
       [] name = "your_own_query" ->
            <<"Query: ">> \o Interpolate(a["query"]) \o <<" ">>
            \o (IF a["context"].def THEN a["context"].text ELSE <<>>)

\* ------------------------------------------------------------------- state
\* Every variable is a function of the call-tool requests of the run, each
\* with its own handler invocation and closure.
VARIABLES
  stage,      \* per request: "idle" (not yet sent), "awaiting", "done"
  req,        \* the request's params: [name, args]
  replies,    \* what the caller has received for the request, in order
  spawns,     \* child_process.spawn calls made for the request
  stdin,      \* what the subprocess got on its input: [data, ended]
  pstate,     \* subprocess: "none", "tick" (failed spawn, error event queued
              \* by process.nextTick), "running", "exited", "closed"
  errno,      \* the errno of a failed spawn
  exitCode,   \* the code of the close event ("null": ended by a signal)
  handlesTerm,\* whether the program catches SIGTERM
  sigterm,    \* "none", "pending" (sent, not yet acted on), "caught"
  budget,     \* chunks the subprocess may still write
  outLog,     \* chunks the subprocess wrote to its output stream, in order
  errLog,     \* chunks the subprocess wrote to its error stream, in order
  stdout,     \* runClaudeCommand's let stdout
  stderr,     \* runClaudeCommand's let stderr
  timer,      \* timeoutId: "unset", "armed", "fired", "cleared"
  promise,    \* the promise runClaudeCommand returned: [state, value]
  kills,      \* proc.kill() calls made for the request
  spawned,    \* what spawn was called with for the request: [command, args]
  server,     \* the server process: "starting", "constructed" (handlers
              \* registered, not yet connected), "running", "exited"
  CLAUDE_BIN, \* the module's const CLAUDE_BIN, read from process.env
  listed,     \* the tools of the last ListTools response (<<>>: none yet)
  path,       \* per request: the stages its handling has entered, in order
  ownStdout,  \* the kinds of record written to the server's process.stdout
  connection, \* the server's transport: "none", "open", "closed"
  exitCause,  \* why the server process exited ("": it has not)
  codec       \* a text given to encodeText and decodeText: [stage, text,
              \* encoded, decoded]

vars ==
  << stage, req, replies, spawns, stdin, pstate, errno, exitCode, handlesTerm,
     sigterm, budget, outLog, errLog, stdout, stderr, timer, promise, kills,
     spawned, server, CLAUDE_BIN, listed, path, ownStdout, connection,
     exitCause, codec >>

\* The requests of the run.
Calls == DOMAIN stage

\* --------------------------------------------------------- inputs, bounded
\* Tool names a request may carry: the seven tools and one that is none.
RequestNames == ToolNames \cup {"delete_everything"}

\* Texts of an argument: the empty string and a double quote.
ArgTexts == { <<>>, <<"\"">> }
ArgValues == {Undefined} \cup { Str(t) : t \in ArgTexts }

\* The keys each case of the switch reads.
ToolKeys(name) ==
  CASE name = "explain_code" -> {"code", "context"}
    [] name = "review_code" -> {"code", "focus_areas"}
    [] name = "fix_code" -> {"code", "issue_description"}
    [] name = "edit_code" -> {"code", "instructions"}
    [] name = "test_code" -> {"code", "test_framework"}
    [] name = "simulate_command" -> {"command", "input"}
    [] name = "your_own_query" -> {"query", "context"}
    [] OTHER -> {"code"}

ArgumentsFor(name) ==
  {NoArguments} \cup
  { Arguments(a) : a \in [ToolKeys(name) -> ArgValues] }

\* request.params of the call-tool requests a client may send.
RequestsOf(names) ==
  UNION { { [name |-> n, args |-> a] : a \in ArgumentsFor(n) } : n \in names }

Requests == RequestsOf(RequestNames)

\* The path of the Claude CLI a configuration names.
BinPath == <<"/usr/local/bin/claude">>

\* process.env.CLAUDE_BIN as the MCP host sets it, and the CLAUDE_BIN line
\* of the first .env file found (Undefined: no file, or no such line).
HostEnv == { Undefined, Str(BinPath) }
DotEnv == { Undefined, Str(<<>>), Str(BinPath) }

\* What child_process.spawn may do: start the process; fail with an errno
\* it reports by an 'error' event on the next tick; fail with an errno it
\* throws.
AsyncSpawnErrnos == {"ENOENT", "EACCES"}
SyncSpawnErrnos == {"ENOMEM"}
SpawnResults == {"ok"} \cup AsyncSpawnErrnos \cup SyncSpawnErrnos

\* The exit code a failed spawn's close event carries (the negated errno).
ErrnoCode(e) == CASE e = "ENOENT" -> "-2" [] e = "EACCES" -> "-13" [] OTHER -> "-1"

\* Exit codes a program ends with on its own.
ExitCodes == {"0", "1", "2"}

\* Chunks a subprocess may write to its output and to its error stream.
OutChunks == { <<"a">>, <<" ">>, <<"C3">>, <<"A9">>, <<"C3", "A9">> }
ErrChunks == { <<"e">>, <<"r">> }

\* ---------------------------------------------------------------- promise
Pending == [state |-> "pending", value |-> Output(<<>>)]
NoPromise == [state |-> "none", value |-> Output(<<>>)]

\* Mutant: every resolve or reject replaces the promise's state.
SettledLastWins(p, state, v) == [state |-> state, value |-> v]

\* resolve(v) / reject(v) of a promise: the first settlement stands.
Settled(p, state, v) ==
  IF p.state = "pending" THEN [state |-> state, value |-> v] ELSE p

\* Mutant: the catch rethrows what it caught, code and all.
OuterCatchRethrows(err) == McpError(err.code, err.msg)

\* The outer catch of the handler: whatever was thrown becomes McpError 500
\* with the thrown error's message.
OuterCatch(err) == McpError(500, err.msg)

\* An Error(message) thrown, and the McpError the default case throws.
Thrown(message) == [code |-> 0, msg |-> message]
DefaultCase(name) == [code |-> 404, msg |-> UnknownToolMessage(name)]

\* The handler after `await runClaudeCommand(...)`: it runs when the promise
\* p has become q, returns the response or throws into the outer catch.
AfterAwait(p, q, sent) ==
  IF q = p THEN sent
  ELSE IF q.state = "resolved" THEN Append(sent, ToolResponse(q.value))
  ELSE Append(sent, OuterCatch(Thrown(q.value)))

\* Mutant: the timer is left running.
clearTimeoutForgotten(t) == t

\* clearTimeout(timeoutId)
clearTimeout(t) == IF t = "armed" THEN "cleared" ELSE t

\* ------------------------------------------------------- handler callbacks
\* Mutant: stdout = chunk instead of stdout += chunk.
OnStdoutDataKeepsLast(acc, chunk) == toString(chunk)

\* proc.stdout.on('data', ...): stdout after the callback.
OnStdoutData(acc, chunk) == acc \o toString(chunk)

\* proc.stderr.on('data', ...): stderr after the callback.
OnStderrData(acc, chunk) == acc \o toString(chunk)

\* Mutant: the failure message carries stdout in place of stderr.
OnCloseReportsStdout(p, code, out, err) ==
  IF code = "0"
    THEN Settled(p, "resolved", Output(Trim(out)))
    ELSE Settled(p, "rejected", ExitError(code, out))

\* Mutant: the close callback resolves whatever the exit code.
OnCloseIgnoresCode(p, code, out, err) == Settled(p, "resolved", Output(Trim(out)))

\* Mutant: `if (!code)` in place of `if (code === 0)`.
OnCloseFalsyCode(p, code, out, err) ==
  IF code \in {"0", "null"}
    THEN Settled(p, "resolved", Output(Trim(out)))
    ELSE Settled(p, "rejected", ExitError(code, err))

\* proc.on('close', code => ...): the promise after the callback.
OnClose(p, code, out, err) ==
  IF code = "0"
    THEN Settled(p, "resolved", Output(Trim(out)))
    ELSE Settled(p, "rejected", ExitError(code, err))

\* Mutant: no reject in the 'error' callback.
OnErrorWithoutReject(p, e) == p

\* proc.on('error', err => ...): the promise after the callback.
OnError(p, e) == Settled(p, "rejected", SpawnError(e))

\* Mutant: one proc for all calls, the one of another call that runs.
ProcShared(c) ==
  IF \E d \in Calls : d # c /\ pstate[d] = "running"
    THEN CHOOSE d \in Calls : d # c /\ pstate[d] = "running"
    ELSE c

\* const proc of the runClaudeCommand invocation of call c, as its callbacks
\* see it: the subprocess spawned for c.
Proc(c) == c

\* Mutant: the callback kills the process and does not reject.
OnTimeoutWithoutReject(p) == p

\* The setTimeout callback: the promise after it.
OnTimeout(p) == Settled(p, "rejected", TimeoutError)

\* ---------------------------------------------------------------- startup
\* !v of a string or undefined.
Falsy(v) == ~v.def \/ v.text = <<>>

\* process.env.CLAUDE_BIN after the fallback: a .env file is read only when
\* the host's value is falsy, and fills only a key the environment lacks.
LoadEnv(host, file) == IF host.def THEN host ELSE file

\* Mutant: the server starts without the check of CLAUDE_BIN.
MissingBinIgnored(bin) == FALSE

\* if (!CLAUDE_BIN) { ...; process.exit(1); }
MissingBin(bin) == Falsy(bin)

\* What the module's top level writes to process.stdout: console.log, and
\* the records of the logger, whose Console transport writes there.
StartupOutput == {"console.log", "logger"}

\* ------------------------------------------------------------- tool table
\* The tools the ListTools handler returns: name, the keys of the input
\* schema's properties, its required keys.
Tool(name, properties, required) ==
  [name |-> name, properties |-> properties, required |-> required]

\* Mutant: the last tool of the table is left out.
ToolTableShort ==
  << Tool("explain_code", {"code", "context"}, {"code"}),
     Tool("review_code", {"code", "focus_areas"}, {"code"}),
     Tool("fix_code", {"code", "issue_description"}, {"code", "issue_description"}),
     Tool("edit_code", {"code", "instructions"}, {"code", "instructions"}),
     Tool("test_code", {"code", "test_framework"}, {"code"}),
     Tool("simulate_command", {"command", "input"}, {"command"}) >>

ToolTable ==
  << Tool("explain_code", {"code", "context"}, {"code"}),
     Tool("review_code", {"code", "focus_areas"}, {"code"}),
     Tool("fix_code", {"code", "issue_description"}, {"code", "issue_description"}),
     Tool("edit_code", {"code", "instructions"}, {"code", "instructions"}),
     Tool("test_code", {"code", "test_framework"}, {"code"}),
     Tool("simulate_command", {"command", "input"}, {"command"}),
     Tool("your_own_query", {"query", "context"}, {"query"}) >>

\* ------------------------------------------------------------------ spawn
NotSpawned == [command |-> <<>>, args |-> <<>>]

\* Mutant: the prompt is passed on the command line as well.
claudeArgsWithPrompt(name, prompt) == <<"--print">> \o prompt

\* The claudeArgs every case of the switch passes to runClaudeCommand.
claudeArgs(name, prompt) == <<"--print">>

\* spawn(CLAUDE_BIN!, claudeArgs, ...): the command and its argument list.
Spawn(bin, args) == [command |-> bin.text, args |-> args]

\* Mutant: the input stream is written and left open.
WriteStdinLeftOpen(stdinInput) == [data |-> stdinInput, ended |-> FALSE]

\* if (stdinInput) { proc.stdin.write(stdinInput); proc.stdin.end(); }
WriteStdin(stdinInput) ==
  IF stdinInput # <<>>
    THEN [data |-> stdinInput, ended |-> TRUE]
    ELSE [data |-> <<>>, ended |-> FALSE]

\* ----------------------------------------------------------------- stages
\* The stages of a request's handling up to the call of runClaudeCommand:
\* the handler is entered, the switch finds the tool's case, the case builds
\* the prompt, runClaudeCommand is called with it.
StagesSpawnFirst(route, args) ==
  IF route = "default" THEN <<"Received">>
  ELSE IF PromptThrows(route, args).thrown THEN <<"Received", "Validated">>
  ELSE <<"Received", "Validated", "ProcessInvoked", "PromptBuilt">>

Stages(route, args) ==
  IF route = "default" THEN <<"Received">>
  ELSE IF PromptThrows(route, args).thrown THEN <<"Received", "Validated">>
  ELSE <<"Received", "Validated", "PromptBuilt", "ProcessInvoked">>

\* The stages after a step of the handler: a response returned is the stage
\* Responded, an error thrown to the caller the stage Failed.
Ended(stages, sent, sentNow) ==
  IF sentNow = sent THEN stages
  ELSE Append(stages, IF sentNow[Len(sentNow)].kind = "result"
                        THEN "Responded" ELSE "Failed")

\* What a step of a handler writes to process.stdout: the transport writes
\* the response or the error it sends.  (The records the logger's Console
\* transport writes there as well are in ownStdout since startup.)
Written(sent, sentNow) == IF sentNow = sent THEN {} ELSE {"protocol"}

\* No text has been given to the codec.
NoCodec == [stage |-> "none", text |-> <<>>, encoded |-> <<>>, decoded |-> <<>>]

\* No callback queued by process.nextTick is waiting: timers and I/O
\* callbacks run only then.
NoTick == \A c \in Calls : pstate[c] # "tick"

\* ------------------------------------------------------------------- Init
InitOf(ids, chunks) ==
  /\ stage = [c \in ids |-> "idle"]
  /\ req = [c \in ids |-> [name |-> "", args |-> NoArguments]]
  /\ replies = [c \in ids |-> <<>>]
  /\ spawns = [c \in ids |-> 0]
  /\ stdin = [c \in ids |-> [data |-> <<>>, ended |-> FALSE]]
  /\ pstate = [c \in ids |-> "none"]
  /\ errno = [c \in ids |-> ""]
  /\ exitCode = [c \in ids |-> ""]
  /\ handlesTerm = [c \in ids |-> FALSE]
  /\ sigterm = [c \in ids |-> "none"]
  /\ budget = [c \in ids |-> chunks]
  /\ outLog = [c \in ids |-> <<>>]
  /\ errLog = [c \in ids |-> <<>>]
  /\ stdout = [c \in ids |-> <<>>]
  /\ stderr = [c \in ids |-> <<>>]
  /\ timer = [c \in ids |-> "unset"]
  /\ promise = [c \in ids |-> NoPromise]
  /\ kills = [c \in ids |-> 0]
  /\ spawned = [c \in ids |-> NotSpawned]
  /\ server = "starting"
  /\ CLAUDE_BIN = Undefined
  /\ listed = <<>>
  /\ path = [c \in ids |-> <<>>]
  /\ ownStdout = {}
  /\ connection = "none"
  /\ exitCause = ""
  /\ codec = NoCodec

InitFor(ids) == InitOf(ids, MaxChunks)

\* The requests of a run of one call.
Ids == {"r1"}

Init == InitFor(Ids)

\* ---------------------------------------------------------------- actions
\* The CallTool handler from the arrival of request c to its first await (or
\* to its end, when it throws before): the switch on the tool name, the
\* prompt, runClaudeCommand's synchronous body.
CallToolWith(c, requests) ==
  /\ server = "running"
  /\ stage[c] = "idle"
  /\ NoTick
  /\ \E r \in requests :
       LET name == r.name
           args == r.args
       IN
       /\ req' = [req EXCEPT ![c] = r]
       /\ IF Route(name) = "default" THEN
            \* default: throw new McpError(404, ...), caught by the outer catch
            /\ replies' = [replies EXCEPT ![c] = Append(@, OuterCatch(DefaultCase(name)))]
            /\ stage' = [stage EXCEPT ![c] = "done"]
            /\ UNCHANGED << spawns, stdin, pstate, errno, handlesTerm, timer, promise, spawned >>
          ELSE IF PromptThrows(Route(name), args).thrown THEN
            /\ replies' = [replies EXCEPT ![c] =
                 Append(@, OuterCatch(Thrown(PromptThrows(Route(name), args).err)))]
            /\ stage' = [stage EXCEPT ![c] = "done"]
            /\ UNCHANGED << spawns, stdin, pstate, errno, handlesTerm, timer, promise, spawned >>
          ELSE
            \E res \in SpawnResults : \E catches \in BOOLEAN :
              /\ spawns' = [spawns EXCEPT ![c] = @ + 1]
              /\ spawned' = [spawned EXCEPT ![c] =
                   Spawn(CLAUDE_BIN, claudeArgs(Route(name), Prompt(Route(name), args)))]
              /\ IF res \in SyncSpawnErrnos THEN
                   \* spawn throws: catch (err) { reject(err) }, no timer set
                   LET q == Settled(Pending, "rejected", SpawnError(res)) IN
                   /\ promise' = [promise EXCEPT ![c] = q]
                   /\ replies' = [replies EXCEPT ![c] = AfterAwait(Pending, q, @)]
                   /\ stage' = [stage EXCEPT ![c] = "done"]
                   /\ errno' = [errno EXCEPT ![c] = res]
                   /\ catches = FALSE
                   /\ UNCHANGED << stdin, pstate, handlesTerm, timer >>
                 ELSE
                   /\ promise' = [promise EXCEPT ![c] = Pending]
                   /\ timer' = [timer EXCEPT ![c] = "armed"]
                   /\ stage' = [stage EXCEPT ![c] = "awaiting"]
                   /\ replies' = replies
                   /\ IF res = "ok" THEN
                        /\ pstate' = [pstate EXCEPT ![c] = "running"]
                        /\ stdin' = [stdin EXCEPT ![c] =
                             WriteStdin(Prompt(Route(name), args))]
                        /\ handlesTerm' = [handlesTerm EXCEPT ![c] = catches]
                        /\ errno' = errno
                      ELSE
                        \* no process: the write goes to a pipe nobody reads
                        /\ pstate' = [pstate EXCEPT ![c] = "tick"]
                        /\ errno' = [errno EXCEPT ![c] = res]
                        /\ catches = FALSE
                        /\ UNCHANGED << stdin, handlesTerm >>
       /\ path' = [path EXCEPT ![c] =
            Ended(Stages(Route(name), args), replies[c], replies'[c])]
       /\ ownStdout' = ownStdout \cup Written(replies[c], replies'[c])
  /\ UNCHANGED << exitCode, sigterm, budget, outLog, errLog, stdout, stderr, kills,
                  server, CLAUDE_BIN, listed, connection, exitCause, codec >>

\* A call-tool request of the client arrives.
CallTool(c) == CallToolWith(c, Requests)

\* The next tick after a failed spawn: the 'error' event and, in the same
\* tick, the 'close' event with the negated errno as its code.
SpawnErrorTick(c) ==
  /\ server = "running"
  /\ pstate[c] = "tick"
  /\ LET q1 == OnError(promise[c], errno[c])
         q2 == OnClose(q1, ErrnoCode(errno[c]), stdout[c], stderr[c])
     IN /\ promise' = [promise EXCEPT ![c] = q2]
        /\ replies' = [replies EXCEPT ![c] = AfterAwait(q1, q2, AfterAwait(promise[c], q1, @))]
  /\ timer' = [timer EXCEPT ![c] = clearTimeout(clearTimeout(@))]
  /\ pstate' = [pstate EXCEPT ![c] = "closed"]
  /\ exitCode' = [exitCode EXCEPT ![c] = ErrnoCode(errno[c])]
  /\ stage' = [stage EXCEPT ![c] = "done"]
  /\ UNCHANGED << spawned, server, CLAUDE_BIN, listed, connection, exitCause, codec >>
  /\ UNCHANGED << req, spawns, stdin, errno, handlesTerm, sigterm, budget,
                  outLog, errLog, stdout, stderr, kills >>
  /\ path' = [path EXCEPT ![c] = Ended(@, replies[c], replies'[c])]
  /\ ownStdout' = ownStdout \cup Written(replies[c], replies'[c])

\* proc.stdout.on('data', ...): the subprocess wrote a chunk to its output.
StdoutDataOf(c, chunks) ==
  /\ server = "running"
  /\ pstate[c] \in {"running", "exited"}
  /\ budget[c] > 0
  /\ NoTick
  /\ \E chunk \in chunks :
       /\ outLog' = [outLog EXCEPT ![c] = Append(@, chunk)]
       /\ stdout' = [stdout EXCEPT ![c] = OnStdoutData(@, chunk)]
  /\ budget' = [budget EXCEPT ![c] = @ - 1]
  /\ UNCHANGED << spawned, server, CLAUDE_BIN, listed, path, ownStdout, connection,
                  exitCause, codec >>
  /\ UNCHANGED << stage, req, replies, spawns, stdin, pstate, errno, exitCode,
                  handlesTerm, sigterm, errLog, stderr, timer, promise, kills >>

StdoutData(c) == StdoutDataOf(c, OutChunks)

\* proc.stderr.on('data', ...): the subprocess wrote a chunk to its error stream.
StderrDataOf(c, chunks) ==
  /\ server = "running"
  /\ pstate[c] \in {"running", "exited"}
  /\ budget[c] > 0
  /\ NoTick
  /\ \E chunk \in chunks :
       /\ errLog' = [errLog EXCEPT ![c] = Append(@, chunk)]
       /\ stderr' = [stderr EXCEPT ![c] = OnStderrData(@, chunk)]
  /\ budget' = [budget EXCEPT ![c] = @ - 1]
  /\ UNCHANGED << spawned, server, CLAUDE_BIN, listed, path, ownStdout, connection,
                  exitCause, codec >>
  /\ UNCHANGED << stage, req, replies, spawns, stdin, pstate, errno, exitCode,
                  handlesTerm, sigterm, outLog, stdout, timer, promise, kills >>

StderrData(c) == StderrDataOf(c, ErrChunks)

\* The subprocess ends on its own with an exit code.  The server listens to
\* no 'exit' event: nothing of its state changes, and the streams stay open
\* until they are closed (a descendant may hold them).
ProcExit(c) ==
  /\ pstate[c] = "running"
  /\ NoTick
  /\ \E code \in ExitCodes : exitCode' = [exitCode EXCEPT ![c] = code]
  /\ pstate' = [pstate EXCEPT ![c] = "exited"]
  /\ UNCHANGED << spawned, server, CLAUDE_BIN, listed, path, ownStdout, connection,
                  exitCause, codec >>
  /\ UNCHANGED << stage, req, replies, spawns, stdin, errno, handlesTerm, sigterm,
                  budget, outLog, errLog, stdout, stderr, timer, promise, kills >>

\* SIGTERM ends a subprocess that does not catch it: no exit code.
ProcTerminated(c) ==
  /\ pstate[c] = "running"
  /\ sigterm[c] = "pending"
  /\ ~handlesTerm[c]
  /\ NoTick
  /\ exitCode' = [exitCode EXCEPT ![c] = "null"]
  /\ pstate' = [pstate EXCEPT ![c] = "exited"]
  /\ sigterm' = [sigterm EXCEPT ![c] = "none"]
  /\ UNCHANGED << spawned, server, CLAUDE_BIN, listed, path, ownStdout, connection,
                  exitCause, codec >>
  /\ UNCHANGED << stage, req, replies, spawns, stdin, errno, handlesTerm,
                  budget, outLog, errLog, stdout, stderr, timer, promise, kills >>

\* A subprocess that catches SIGTERM goes on running.
ProcCatchesTerm(c) ==
  /\ pstate[c] = "running"
  /\ sigterm[c] = "pending"
  /\ handlesTerm[c]
  /\ NoTick
  /\ sigterm' = [sigterm EXCEPT ![c] = "caught"]
  /\ UNCHANGED << spawned, server, CLAUDE_BIN, listed, path, ownStdout, connection,
                  exitCause, codec >>
  /\ UNCHANGED << stage, req, replies, spawns, stdin, pstate, errno, exitCode,
                  handlesTerm, budget, outLog, errLog, stdout, stderr, timer,
                  promise, kills >>

\* proc.on('close', ...): the process has ended and its streams are closed.
Close(c) ==
  /\ server = "running"
  /\ pstate[c] = "exited"
  /\ NoTick
  /\ LET q == OnClose(promise[c], exitCode[c], stdout[c], stderr[c])
     IN /\ promise' = [promise EXCEPT ![c] = q]
        /\ replies' = [replies EXCEPT ![c] = AfterAwait(promise[c], q, @)]
  /\ timer' = [timer EXCEPT ![c] = clearTimeout(@)]
  /\ pstate' = [pstate EXCEPT ![c] = "closed"]
  /\ stage' = [stage EXCEPT ![c] = "done"]
  /\ UNCHANGED << spawned, server, CLAUDE_BIN, listed, connection, exitCause, codec >>
  /\ UNCHANGED << req, spawns, stdin, errno, exitCode, handlesTerm, sigterm,
                  budget, outLog, errLog, stdout, stderr, kills >>
  /\ path' = [path EXCEPT ![c] = Ended(@, replies[c], replies'[c])]
  /\ ownStdout' = ownStdout \cup Written(replies[c], replies'[c])

\* The setTimeout callback: proc.kill() (SIGTERM, sent only to a process
\* that has not ended) and reject with the timeout error.
Timeout(c) ==
  /\ server = "running"
  /\ timer[c] = "armed"
  /\ NoTick
  /\ timer' = [timer EXCEPT ![c] = "fired"]
  /\ kills' = [kills EXCEPT ![c] = @ + 1]
  /\ sigterm' = [sigterm EXCEPT ![Proc(c)] =
       IF pstate[Proc(c)] = "running" /\ @ = "none" THEN "pending" ELSE @]
  /\ LET q == OnTimeout(promise[c])
     IN /\ promise' = [promise EXCEPT ![c] = q]
        /\ replies' = [replies EXCEPT ![c] = AfterAwait(promise[c], q, @)]
  /\ stage' = [stage EXCEPT ![c] = "done"]
  /\ UNCHANGED << spawned, server, CLAUDE_BIN, listed, connection, exitCause, codec >>
  /\ UNCHANGED << req, spawns, stdin, pstate, errno, exitCode, handlesTerm,
                  budget, outLog, errLog, stdout, stderr >>
  /\ path' = [path EXCEPT ![c] = Ended(@, replies[c], replies'[c])]
  /\ ownStdout' = ownStdout \cup Written(replies[c], replies'[c])

\* The module's top level up to `new ClaudeCodeServer()`: CLAUDE_BIN is read
\* from the environment; without it the process exits, with it the server
\* is constructed and its request handlers are registered.
Startup ==
  /\ server = "starting"
  /\ \E host \in HostEnv : \E file \in DotEnv :
       /\ CLAUDE_BIN' = LoadEnv(host, file)
       /\ server' = IF MissingBin(LoadEnv(host, file)) THEN "exited" ELSE "constructed"
       /\ exitCause' = IF MissingBin(LoadEnv(host, file)) THEN "CLAUDE_BIN" ELSE ""
  /\ ownStdout' = ownStdout \cup StartupOutput
  /\ UNCHANGED << stage, req, replies, spawns, stdin, pstate, errno, exitCode,
                  handlesTerm, sigterm, budget, outLog, errLog, stdout, stderr,
                  timer, promise, kills, spawned, listed, path, connection, codec >>

\* run(): await this.server.connect(transport); requests are served from
\* here on.
Run ==
  /\ server = "constructed"
  /\ server' = "running"
  /\ connection' = "open"
  /\ ownStdout' = ownStdout \cup {"logger"}
  /\ UNCHANGED << stage, req, replies, spawns, stdin, pstate, errno, exitCode,
                  handlesTerm, sigterm, budget, outLog, errLog, stdout, stderr,
                  timer, promise, kills, spawned, CLAUDE_BIN, listed, path,
                  exitCause, codec >>

\* The ListTools handler: it returns the table.
ListTools ==
  /\ server = "running"
  /\ NoTick
  /\ listed' = ToolTable
  /\ ownStdout' = ownStdout \cup {"protocol"}
  /\ UNCHANGED << stage, req, replies, spawns, stdin, pstate, errno, exitCode,
                  handlesTerm, sigterm, budget, outLog, errLog, stdout, stderr,
                  timer, promise, kills, spawned, server, CLAUDE_BIN, path,
                  connection, exitCause, codec >>

Next ==
  \/ Startup
  \/ Run
  \/ ListTools
  \/ \E c \in Calls : CallTool(c)
  \/ \E c \in Calls : SpawnErrorTick(c)
  \/ \E c \in Calls : StdoutData(c)
  \/ \E c \in Calls : StderrData(c)
  \/ \E c \in Calls : ProcExit(c)
  \/ \E c \in Calls : ProcTerminated(c)
  \/ \E c \in Calls : ProcCatchesTerm(c)
  \/ \E c \in Calls : Close(c)
  \/ \E c \in Calls : Timeout(c)

Spec == Init /\ [][Next]_vars

\* ------------------------------------------------- two overlapping calls
\* Chunks each subprocess writes at most when two calls overlap.
ParChunks == 1

ParIds == {"r1", "r2"}

\* What the client sends in a run of two calls.
ParRequests ==
  { [name |-> "your_own_query",
     args |-> Arguments([query |-> Str(<<"\"">>), context |-> Undefined])] }

\* What each of the two subprocesses writes: no chunk of one is a chunk of
\* the other.
ParOutChunks(c) == IF c = "r1" THEN { <<"a">> } ELSE { <<"C3", "A9">> }
ParErrChunks(c) == IF c = "r1" THEN { <<"e">> } ELSE { <<"r">> }

InitPar == InitOf(ParIds, ParChunks)

NextPar ==
  \/ Startup
  \/ Run
  \/ \E c \in Calls : CallToolWith(c, ParRequests)
  \/ \E c \in Calls : SpawnErrorTick(c)
  \/ \E c \in Calls : StdoutDataOf(c, ParOutChunks(c))
  \/ \E c \in Calls : StderrDataOf(c, ParErrChunks(c))
  \/ \E c \in Calls : ProcExit(c)
  \/ \E c \in Calls : ProcTerminated(c)
  \/ \E c \in Calls : ProcCatchesTerm(c)
  \/ \E c \in Calls : Close(c)
  \/ \E c \in Calls : Timeout(c)

SpecPar == InitPar /\ [][NextPar]_vars

\* What is bound to happen: a due timer callback runs, queued events are
\* delivered, a signal sent to a process is acted on.  That a subprocess
\* writes, or ends on its own, is not.
Fairness ==
  \A c \in Ids :
    /\ WF_vars(SpawnErrorTick(c))
    /\ WF_vars(Timeout(c))
    /\ WF_vars(Close(c))
    /\ WF_vars(ProcTerminated(c))
    /\ WF_vars(ProcCatchesTerm(c))

FairSpec == Spec /\ Fairness

\* ------------------------------------------------------------ long inputs
\* Texts at the limit of truncateIfNeeded: maxLength characters; one more;
\* one more, the last character being U+1F600, whose two code units are
\* the last of the first maxLength and the one after.
FullText == [i \in 1..maxLength |-> "x"]
LongText == [i \in 1..(maxLength + 1) |-> "x"]
SplitText ==
  [i \in 1..(maxLength + 1) |->
     IF i = maxLength THEN "U+D83D" ELSE IF i = maxLength + 1 THEN "U+DE00" ELSE "x"]

CodeTools == {"explain_code", "review_code", "fix_code", "edit_code", "test_code"}

\* Requests with a long code and no other argument, and requests whose
\* other arguments are long.
LongRequests ==
  { [name |-> n,
     args |-> Arguments([k \in ToolKeys(n) |-> IF k = "code" THEN Str(t) ELSE Undefined])] :
       n \in CodeTools, t \in {FullText, LongText, SplitText} }
  \cup
  { [name |-> n,
     args |-> Arguments([k \in ToolKeys(n) |-> IF k = "code" THEN Str(<<"x">>) ELSE Str(LongText)])] :
       n \in ToolNames }

\* No subprocess writes anything in these runs.
InitLong == InitOf(Ids, 0)

NextLong ==
  \/ Startup
  \/ Run
  \/ \E c \in Calls : CallToolWith(c, LongRequests)
  \/ \E c \in Calls : SpawnErrorTick(c)
  \/ \E c \in Calls : ProcExit(c)
  \/ \E c \in Calls : ProcTerminated(c)
  \/ \E c \in Calls : ProcCatchesTerm(c)
  \/ \E c \in Calls : Close(c)
  \/ \E c \in Calls : Timeout(c)

SpecLong == InitLong /\ [][NextLong]_vars

\* ------------------------------------------------- the process as a whole
\* Two overlapping calls as above, with what happens to the server process
\* and to a subprocess from outside the handler: a signal that ends the
\* subprocess, an error of the subprocess's input stream, SIGINT.

\* The subprocess is ended by a signal nobody in the server sent (the
\* kernel, the user): it has no exit code.
ProcKilled(c) ==
  /\ pstate[c] = "running"
  /\ NoTick
  /\ exitCode' = [exitCode EXCEPT ![c] = "null"]
  /\ pstate' = [pstate EXCEPT ![c] = "exited"]
  /\ UNCHANGED << spawned, server, CLAUDE_BIN, listed, path, ownStdout, connection,
                  exitCause, codec >>
  /\ UNCHANGED << stage, req, replies, spawns, stdin, errno, handlesTerm, sigterm,
                  budget, outLog, errLog, stdout, stderr, timer, promise, kills >>

\* process.on('uncaughtException', ...): log, flushLog, process.exit(1).
OnUncaughtException(srv) == "exited"

\* The subprocess has ended without reading what was written to its input:
\* the write fails with EPIPE, proc.stdin emits 'error', and as the stream
\* has no 'error' listener the error is an uncaught exception.
StdinError(c) ==
  /\ server = "running"
  /\ pstate[c] = "exited"
  /\ stdin[c].data # <<>>
  /\ NoTick
  /\ server' = OnUncaughtException(server)
  /\ exitCause' = "uncaughtException"
  /\ UNCHANGED << stage, req, replies, spawns, stdin, pstate, errno, exitCode,
                  handlesTerm, sigterm, budget, outLog, errLog, stdout, stderr,
                  timer, promise, kills, spawned, CLAUDE_BIN, listed, path,
                  ownStdout, connection, codec >>

\* The 'SIGINT' listeners in the order of their registration: the one of
\* the module's top level, then the one of the constructor.
SigintListeners == <<"module", "constructor">>

\* The connection after the listeners have run: the first one that calls
\* process.exit ends the process, and no listener after it runs.  The
\* module's listener logs, flushes the log and exits; the constructor's
\* awaits server.close() and exits.
RECURSIVE OnSigint(_, _)
OnSigint(listeners, conn) ==
  IF listeners = <<>> THEN conn
  ELSE IF listeners[1] = "module" THEN conn
  ELSE IF conn = "open" THEN "closed"
  ELSE OnSigint(Tail(listeners), conn)

\* SIGINT is delivered to the server process.
Sigint ==
  /\ server \in {"constructed", "running"}
  /\ NoTick
  /\ connection' = OnSigint(SigintListeners, connection)
  /\ server' = "exited"
  /\ exitCause' = "SIGINT"
  /\ UNCHANGED << stage, req, replies, spawns, stdin, pstate, errno, exitCode,
                  handlesTerm, sigterm, budget, outLog, errLog, stdout, stderr,
                  timer, promise, kills, spawned, CLAUDE_BIN, listed, path,
                  ownStdout, codec >>

InitProc == InitOf(ParIds, ParChunks)

NextProc ==
  \/ Startup
  \/ Run
  \/ \E c \in Calls : CallToolWith(c, ParRequests)
  \/ \E c \in Calls : SpawnErrorTick(c)
  \/ \E c \in Calls : StdoutDataOf(c, ParOutChunks(c))
  \/ \E c \in Calls : StderrDataOf(c, ParErrChunks(c))
  \/ \E c \in Calls : ProcExit(c)
  \/ \E c \in Calls : ProcKilled(c)
  \/ \E c \in Calls : ProcTerminated(c)
  \/ \E c \in Calls : ProcCatchesTerm(c)
  \/ \E c \in Calls : Close(c)
  \/ \E c \in Calls : Timeout(c)
  \/ \E c \in Calls : StdinError(c)

SpecProc == InitProc /\ [][NextProc]_vars

\* As Fairness, for the two calls.
FairnessProc ==
  \A c \in ParIds :
    /\ WF_vars(SpawnErrorTick(c))
    /\ WF_vars(Timeout(c))
    /\ WF_vars(Close(c))
    /\ WF_vars(ProcTerminated(c))
    /\ WF_vars(ProcCatchesTerm(c))

FairProc == SpecProc /\ FairnessProc

NextSig ==
  \/ Startup
  \/ Run
  \/ \E c \in Calls : CallToolWith(c, ParRequests)
  \/ \E c \in Calls : SpawnErrorTick(c)
  \/ \E c \in Calls : StdoutDataOf(c, ParOutChunks(c))
  \/ \E c \in Calls : StderrDataOf(c, ParErrChunks(c))
  \/ \E c \in Calls : ProcExit(c)
  \/ \E c \in Calls : ProcKilled(c)
  \/ \E c \in Calls : ProcTerminated(c)
  \/ \E c \in Calls : ProcCatchesTerm(c)
  \/ \E c \in Calls : Close(c)
  \/ \E c \in Calls : Timeout(c)
  \/ \E c \in Calls : StdinError(c)
  \/ Sigint

SpecSig == InitProc /\ [][NextSig]_vars

\* ------------------------------------------------------------- codec alone
\* encodeText and decodeText as pure functions: a text is encoded, then what
\* was encoded is decoded.
MaxText == 3

\* Code units of every kind: a letter, a double quote, a control character,
\* a two-byte character, the two halves of U+1F600.
CodecUnits == {"a", "\"", "\n", "e'", "U+D83D", "U+DE00"}

Texts == UNION { [1..n -> CodecUnits] : n \in 0..MaxText }

serverVars ==
  << stage, req, replies, spawns, stdin, pstate, errno, exitCode, handlesTerm,
     sigterm, budget, outLog, errLog, stdout, stderr, timer, promise, kills,
     spawned, server, CLAUDE_BIN, listed, path, ownStdout, connection,
     exitCause >>

Encode ==
  /\ codec.stage = "none"
  /\ \E text \in Texts :
       codec' = [stage |-> "encoded", text |-> text,
                 encoded |-> encodeText(text), decoded |-> <<>>]
  /\ UNCHANGED serverVars

Decode ==
  /\ codec.stage = "encoded"
  /\ codec' = [codec EXCEPT !.stage = "decoded",
                            !.decoded = decodeText(codec.encoded)]
  /\ UNCHANGED serverVars

InitCodec == InitOf(Ids, 0)

NextCodec ==
  \/ Encode
  \/ Decode

SpecCodec == InitCodec /\ [][NextCodec]_vars

\* ------------------------------------------------------------------ claims
Done(c) == stage[c] = "done"
Unknown(c) == stage[c] # "idle" /\ req[c].name \notin ToolNames
Known(c) == stage[c] # "idle" /\ req[c].name \in ToolNames

\* C1 (as claimed): a request whose tool name is none of the seven is
\* answered with the "not found" error, code 404.
C1_UnknownToolIsNotFound ==
  \A c \in Calls :
    Unknown(c) => replies[c] = << McpError(404, UnknownToolMessage(req[c].name)) >>

\* C2: a request with an unknown tool name spawns nothing: handling it leaves
\* every spawn count as it was, and no subprocess exists for it afterwards.
C2_UnknownToolSpawnsNothing ==
  [][ \A c \in Calls :
        (stage[c] = "idle" /\ stage'[c] # "idle" /\ req'[c].name \notin ToolNames)
          => /\ spawns' = spawns
             /\ pstate' = pstate
             /\ replies'[c] # <<>> ]_vars

C2_Witness ==
  \E c \in Calls : Unknown(c) /\ Done(c) /\ Len(replies[c]) = 1 /\ spawns[c] = 0

\* C3: for a known tool, an exception of the prompt stage (arguments missing
\* altogether, a required text undefined) and every rejection of the runner
\* (spawn failure, timeout, non-zero exit) reach the caller as one error of
\* code 500 whose message is the message of the error raised; no error of
\* another code is sent.
C3_FailuresAreInternalErrors ==
  \A c \in Calls :
    Known(c) =>
      /\ \A i \in 1..Len(replies[c]) :
           replies[c][i].kind = "error" => replies[c][i].code = 500
      /\ PromptThrows(req[c].name, req[c].args).thrown =>
           replies[c] = << McpError(500, PromptThrows(req[c].name, req[c].args).err) >>
      /\ errno[c] \in SyncSpawnErrnos =>
           replies[c] = << McpError(500, SpawnError(errno[c])) >>
      /\ promise[c].state = "rejected" =>
           /\ replies[c] = << McpError(500, promise[c].value) >>
           /\ promise[c].value.kind \in
                {"spawn", "Command timed out after", "Command failed with code"}

C3_Witness ==
  /\ \E c \in Calls : Known(c) /\ PromptThrows(req[c].name, req[c].args).thrown
                      /\ Len(replies[c]) = 1
  \/ \E c \in Calls : Known(c) /\ promise[c].state = "rejected"
                      /\ promise[c].value.kind = "Command failed with code"
                      /\ Len(replies[c]) = 1

\* Text of the subprocess's streams, each chunk decoded on its own.
OutText(c) == DecodeEach(outLog[c])
ErrText(c) == DecodeEach(errLog[c])

\* The close event is the first to settle the call: no timeout before it,
\* no failed spawn.
ClosedFirst(c) == pstate[c] = "closed" /\ timer[c] # "fired" /\ errno[c] = ""

\* C4 (as claimed, read for a close event that is the first to settle the
\* call): on close with exit code 0 the runner resolves with the
\* concatenation of the stdout chunks minus trailing white space.
C4_TrailingWhitespaceOnly ==
  \A c \in Calls :
    (ClosedFirst(c) /\ exitCode[c] = "0") =>
      promise[c] = [state |-> "resolved", value |-> Output(TrimEnd(OutText(c)))]

\* C4 (amended): on close with exit code 0, unless the call has already
\* failed by timeout, the runner resolves with the concatenation, in arrival
\* order, of every stdout chunk, minus leading and trailing white space.
C4_ResolvesWithTrimmedOutput ==
  \A c \in Calls :
    (ClosedFirst(c) /\ exitCode[c] = "0") =>
      promise[c] = [state |-> "resolved", value |-> Output(Trim(OutText(c)))]

C4_Witness ==
  \E c \in Calls :
    /\ ClosedFirst(c) /\ exitCode[c] = "0"
    /\ Len(outLog[c]) = 2
    /\ promise[c].state = "resolved"
    /\ promise[c].value.text # <<>>
    /\ promise[c].value.text # OutText(c)

\* C5 (as claimed, read for a subprocess that was started): on close with a
\* non-zero exit code the call fails with the error that carries the code
\* and the stderr text.
C5_NonZeroExitFails ==
  \A c \in Calls :
    (pstate[c] = "closed" /\ errno[c] = "" /\ exitCode[c] \notin {"0", "null"}) =>
      replies[c] = << McpError(500, ExitError(exitCode[c], ErrText(c))) >>

\* C5 (amended): on close with a non-zero exit code, unless the call has
\* already failed (timeout, error event of a failed spawn), the call fails
\* with the error that carries the code and all stderr text, in order, and
\* nothing of stdout.
C5_NonZeroExitFailsUnlessSettled ==
  \A c \in Calls :
    (ClosedFirst(c) /\ exitCode[c] \notin {"0", "null"}) =>
      /\ promise[c] = [state |-> "rejected",
                       value |-> ExitError(exitCode[c], ErrText(c))]
      /\ replies[c] = << McpError(500, ExitError(exitCode[c], ErrText(c))) >>

C5_Witness ==
  \E c \in Calls :
    /\ ClosedFirst(c) /\ exitCode[c] = "2"
    /\ Len(errLog[c]) = 1 /\ Len(outLog[c]) = 1
    /\ Len(replies[c]) = 1
    /\ replies[c][1].msg.text = ErrText(c)

\* C6: the timer is armed from the spawn on; when it expires the runner calls
\* kill, once, (a subprocess still running is sent the signal), and the
\* caller gets the timeout error, which names 300 seconds.
C6_TimeoutKillsAndFails ==
  \A c \in Calls :
    /\ pstate[c] = "running" => timer[c] # "unset"
    /\ (pstate[c] \in {"running", "exited"} /\ promise[c].state = "pending")
         => timer[c] = "armed"
    /\ timer[c] = "fired" =>
         /\ kills[c] = 1
         /\ promise[c] = [state |-> "rejected", value |-> TimeoutError]
         /\ replies[c] = << McpError(500, TimeoutError) >>
         /\ replies[c][1].msg.kind = "Command timed out after"
         /\ replies[c][1].msg.secs = 300
         /\ pstate[c] = "running" => sigterm[c] \in {"pending", "caught"}

C6_Witness ==
  \E c \in Calls :
    /\ timer[c] = "fired" /\ pstate[c] = "running" /\ sigterm[c] = "pending"
    /\ replies[c] = << McpError(500, TimeoutError) >>

\* C7 (as claimed): after a timeout the subprocess eventually stops running,
\* whatever it does with the termination request.
C7_TimedOutProcessStops ==
  \A c \in Ids : (timer[c] = "fired" /\ pstate[c] = "running") ~> (pstate[c] # "running")

\* C8 (as claimed): once the subprocess has exited cleanly, the timer
\* callback does not run and no kill is issued.
C8_NoTimeoutAfterExit ==
  [][ \A c \in Calls :
        (pstate[c] \in {"exited", "closed"} /\ exitCode[c] = "0")
          => (timer'[c] = "fired" => timer[c] = "fired") /\ kills'[c] = kills[c] ]_vars

\* C8 (amended): once the close event of the subprocess has been handled,
\* the timer is not armed, the timer callback does not run and no kill is
\* issued; a kill is issued only by the timer callback, once.
C8_NoTimeoutAfterClose ==
  [][ \A c \in Calls :
        /\ pstate[c] = "closed" =>
             timer[c] # "armed" /\ timer'[c] = timer[c] /\ kills'[c] = kills[c]
        /\ kills'[c] # kills[c] =>
             timer[c] = "armed" /\ timer'[c] = "fired" /\ kills'[c] = kills[c] + 1 ]_vars

C8_Witness ==
  \E c \in Calls :
    /\ pstate[c] = "closed" /\ exitCode[c] = "0"
    /\ timer[c] = "cleared" /\ kills[c] = 0

\* C9 (as claimed): the timer is armed at no point of a call whose spawn
\* fails.
C9_NoTimerWhenSpawnFails ==
  \A c \in Calls : errno[c] # "" => timer[c] = "unset"

\* C9 (amended): a call whose spawn fails fails with the system error and
\* its timer never fires; when spawn throws, the timer is never armed; when
\* spawn reports the failure by the error event, the timer armed after spawn
\* is cancelled by the error callback, the first callback to run.
C9_SpawnFailureBeatsTimer ==
  \A c \in Calls :
    errno[c] # "" =>
      /\ timer[c] # "fired" /\ kills[c] = 0
      /\ errno[c] \in SyncSpawnErrnos => timer[c] = "unset"
      /\ pstate[c] = "tick" => replies[c] = <<>>
      /\ pstate[c] # "tick" =>
           /\ timer[c] # "armed"
           /\ replies[c] = << McpError(500, SpawnError(errno[c])) >>

C9_Witness ==
  \E c \in Calls :
    /\ errno[c] \in AsyncSpawnErrnos /\ pstate[c] = "closed"
    /\ timer[c] = "cleared"
    /\ replies[c] = << McpError(500, SpawnError(errno[c])) >>

\* C10: a call spawns at most once and is answered at most once; a settled
\* call has exactly one answer, and neither the answer nor the settled
\* promise changes with later events (a close after a timeout or after an
\* error event, a late exit code 0); the request is not handled anew.
C10_OneSpawnOneOutcome ==
  [][ \A c \in Calls :
        /\ spawns'[c] <= 1
        /\ Len(replies'[c]) <= 1
        /\ replies[c] # <<>> => replies'[c] = replies[c]
        /\ promise[c].state \in {"resolved", "rejected"} => promise'[c] = promise[c]
        /\ promise'[c].state \in {"resolved", "rejected"} => Len(replies'[c]) = 1
        /\ stage[c] # "idle" => stage'[c] # "idle" /\ req'[c] = req[c] ]_vars

C10_Witness ==
  \E c \in Calls :
    /\ pstate[c] = "closed" /\ exitCode[c] = "0" /\ timer[c] = "fired"
    /\ spawns[c] = 1
    /\ replies[c] = << McpError(500, TimeoutError) >>

\* Whether a message's variable text holds a character the subprocess of
\* call c wrote to its output stream.
CarriesOutput(message, c) ==
  \E k \in 1..Len(message.text) : \E j \in 1..Len(OutText(c)) :
    message.text[k] = OutText(c)[j]

\* C11: the caller gets a response envelope only when the subprocess has
\* closed with exit code 0; the envelope then has one content entry, of type
\* "text", whose text is the trimmed stdout; a call that failed (timeout,
\* spawn failure, exit code other than 0) gets no envelope, and its error
\* carries nothing the subprocess wrote to its output stream.
C11_NoPartialSuccess ==
  \A c \in Calls : \A i \in 1..Len(replies[c]) :
    /\ replies[c][i].kind = "result" =>
         /\ pstate[c] = "closed" /\ exitCode[c] = "0"
         /\ timer[c] # "fired" /\ errno[c] = ""
         /\ Len(replies[c][i].content) = 1
         /\ replies[c][i].content[1] = [type |-> "text", text |-> Trim(stdout[c])]
         /\ stdout[c] = OutText(c)
    /\ (timer[c] = "fired" \/ errno[c] # "" \/ exitCode[c] \notin {"", "0"}) =>
         replies[c][i].kind = "error"
    /\ replies[c][i].kind = "error" => ~CarriesOutput(replies[c][i].msg, c)

C11_Witness ==
  \E c \in Calls :
    /\ replies[c] = << ToolResponse(Output(<<"a">>)) >>
    /\ stdout[c] = <<" ", "a">>

\* The required keys the tool table gives for a tool.
Required(name) ==
  (CHOOSE t \in { ToolTable[i] : i \in 1..Len(ToolTable) } : t.name = name).required

\* The argument is absent (no arguments at all, or no such key) or is the
\* empty string.
AbsentOrEmpty(args, key) == ~args.given \/ Falsy(args.a[key])

\* C12 (as claimed): a request for one of the seven tools in which a
\* required argument of the tool is absent or empty fails and spawns no
\* subprocess.
C12_RequiredArgumentsEnforced ==
  \A c \in Calls :
    (Known(c) /\ \E k \in Required(req[c].name) : AbsentOrEmpty(req[c].args, k)) =>
      /\ spawns[c] = 0
      /\ replies[c] # <<>> /\ replies[c][1].kind = "error"

Started(c) == pstate[c] \in {"running", "exited", "closed"} /\ errno[c] = ""

\* C14: the prompt of a call is never empty, and from the step that starts
\* the subprocess on, so before any of its output is handled, the whole
\* prompt has been written to its input stream and the stream has been
\* ended.
C14_InputWrittenAndEnded ==
  \A c \in Calls :
    /\ Started(c) =>
         /\ Prompt(req[c].name, req[c].args) # <<>>
         /\ stdin[c] = [data |-> Prompt(req[c].name, req[c].args), ended |-> TRUE]
    /\ ~Started(c) => stdin[c] = [data |-> <<>>, ended |-> FALSE] /\ outLog[c] = <<>>

C14_Witness ==
  \E c \in Calls :
    /\ pstate[c] = "running" /\ outLog[c] = <<>> /\ errLog[c] = <<>>
    /\ req[c] = [name |-> "your_own_query",
                 args |-> Arguments([query |-> Str(<<>>), context |-> Undefined])]
    /\ stdin[c] = [data |-> <<"Query: ", " ">>, ended |-> TRUE]

\* Everything the model holds for one call.
CallState(c) ==
  << stage[c], req[c], replies[c], spawns[c], stdin[c], pstate[c], errno[c],
     exitCode[c], handlesTerm[c], sigterm[c], budget[c], outLog[c], errLog[c],
     stdout[c], stderr[c], timer[c], promise[c], kills[c], spawned[c] >>

\* The variable text of a reply.
ReplyText(r) == IF r.kind = "result" THEN r.content[1].text ELSE r.msg.text

\* No character of text was written by the subprocess of call d.
NothingOf(text, d) ==
  \A k \in 1..Len(text) :
    /\ \A j \in 1..Len(OutText(d)) : text[k] # OutText(d)[j]
    /\ \A j \in 1..Len(ErrText(d)) : text[k] # ErrText(d)[j]

\* The buffers, the signal and the answer of call c come from its own
\* subprocess and its own timer.
OwnOutcome(c) ==
  /\ stdout[c] = OutText(c) /\ stderr[c] = ErrText(c)
  /\ kills[c] = (IF timer[c] = "fired" THEN 1 ELSE 0)
  /\ (sigterm[c] # "none" \/ exitCode[c] = "null") => timer[c] = "fired"
  /\ Len(replies[c]) <= 1
  /\ \A i \in 1..Len(replies[c]) :
       LET r == replies[c][i] IN
       /\ \A d \in Calls \ {c} : NothingOf(ReplyText(r), d)
       /\ r.kind = "result" =>
            /\ pstate[c] = "closed" /\ exitCode[c] = "0"
            /\ r = ToolResponse(Output(Trim(OutText(c))))
       /\ r.kind = "error" =>
            \/ r.msg = TimeoutError /\ timer[c] = "fired"
            \/ r.msg = SpawnError(errno[c]) /\ errno[c] # ""
            \/ /\ r.msg = ExitError(exitCode[c], ErrText(c))
               /\ pstate[c] = "closed" /\ timer[c] # "fired"

\* C15: with two calls overlapping, whatever the order of their events, a
\* step changes the state of one call only, and each call's buffers, signal
\* and answer come from its own subprocess and timer: no text of the other
\* subprocess is in its answer, and it is killed by its own timeout only.
C15_CallsAreIndependent ==
  [][ /\ \A c \in Calls : OwnOutcome(c)'
      /\ \A c, d \in Calls :
           (c # d /\ CallState(c)' # CallState(c)) => CallState(d)' = CallState(d)
    ]_vars

C15_Witness ==
  /\ pstate["r1"] = "running" /\ timer["r1"] = "fired"
  /\ replies["r1"] = << McpError(500, TimeoutError) >>
  /\ errLog["r1"] = << <<"e">> >>
  /\ pstate["r2"] = "closed" /\ timer["r2"] = "cleared"
  /\ replies["r2"] = << ToolResponse(Output(<<"e'">>)) >>

\* C16: when CLAUDE_BIN is still missing after the .env fallback, the process
\* exits straight from startup, before the server is constructed or
\* connected, and stays exited: no ListTools or CallTool request is served
\* in that run and nothing is spawned.
C16_MissingBinExitsAtStartup ==
  [][ /\ (server' # "starting" /\ Falsy(CLAUDE_BIN')) =>
           /\ server' = "exited"
           /\ server \in {"starting", "exited"}
           /\ listed' = <<>>
           /\ \A c \in Calls :
                /\ stage'[c] = "idle" /\ replies'[c] = <<>>
                /\ spawns'[c] = 0 /\ pstate'[c] = "none"
      /\ server' = "exited" => Falsy(CLAUDE_BIN')
    ]_vars

C16_Witness == server = "exited" /\ CLAUDE_BIN = Str(<<>>)

\* The interface table: each tool's required and optional arguments.
InterfaceTable ==
  { [name |-> "explain_code", required |-> {"code"}, optional |-> {"context"}],
    [name |-> "review_code", required |-> {"code"}, optional |-> {"focus_areas"}],
    [name |-> "fix_code", required |-> {"code", "issue_description"}, optional |-> {}],
    [name |-> "edit_code", required |-> {"code", "instructions"}, optional |-> {}],
    [name |-> "test_code", required |-> {"code"}, optional |-> {"test_framework"}],
    [name |-> "simulate_command", required |-> {"command"}, optional |-> {"input"}],
    [name |-> "your_own_query", required |-> {"query"}, optional |-> {"context"}] }

\* The tools of a ListTools response, as rows of the interface table.
Advertised(tools) ==
  { [name |-> tools[i].name, required |-> tools[i].required,
     optional |-> tools[i].properties \ tools[i].required] : i \in 1..Len(tools) }

\* The call was answered as a call of an unknown tool.
AnsweredUnknown(c) ==
  \E i \in 1..Len(replies[c]) :
    /\ replies[c][i].kind = "error"
    /\ replies[c][i].msg = UnknownToolMessage(req[c].name)

\* C17: every ListTools response is the same table, whatever call-tool
\* requests came before; it lists each tool once, its rows are the seven
\* rows of the interface table, required keys included, and a call-tool
\* request is answered as unknown exactly when its name is not in it.
C17_StaticToolTable ==
  [][ /\ listed # <<>> => listed' = listed
      /\ listed' # <<>> =>
           /\ Len(listed') = 7
           /\ Advertised(listed') = InterfaceTable
           /\ \A c \in Calls :
                stage'[c] # "idle" =>
                  (AnsweredUnknown(c)' <=>
                     req'[c].name \notin { listed'[i].name : i \in 1..Len(listed') })
    ]_vars

C17_Witness ==
  /\ listed = ToolTable
  /\ \E c \in Calls : Done(c) /\ req[c].name = "your_own_query"
                        /\ replies[c][1].kind = "result"

\* The Base64 text at the start of a prompt: the characters between its
\* first fixed piece and its second.
Base64Chars == { Base64Alphabet[i] : i \in 1..64 } \cup {"="}

EncodedCode(prompt) ==
  LET k == CHOOSE k \in 2..Len(prompt) :
             /\ prompt[k] \notin Base64Chars
             /\ \A j \in 2..(k - 1) : prompt[j] \in Base64Chars
  IN SubSeq(prompt, 2, k - 1)

\* C18 (as claimed, read for the code argument, the one input that is
\* truncated): the prompt carries, encoded, the first maxLength characters
\* of a longer code followed by the marker, and a code of at most maxLength
\* characters as it is.
C18_TruncatedPrefixCarried ==
  \A c \in Calls :
    (Started(c) /\ req[c].name \in CodeTools) =>
      LET code == req[c].args.a["code"].text IN
      decodeText(EncodedCode(stdin[c].data)) =
        (IF Len(code) > maxLength
           THEN SubSeq(code, 1, maxLength) \o TruncationMarker
           ELSE code)

\* The arguments, each argument but code cut as truncateIfNeeded cuts.
TruncateOthers(args) ==
  Arguments([k \in DOMAIN args.a |->
    IF k # "code" /\ args.a[k].def
      THEN Str(truncateIfNeeded(args.a[k].text))
      ELSE args.a[k]])

\* C19 (as claimed): every argument longer than maxLength is cut, with the
\* marker, before it is placed in the prompt: the prompt is the prompt of
\* the arguments so cut (code is cut where it is encoded).
C19_EveryArgumentTruncated ==
  \A c \in Calls :
    Started(c) =>
      stdin[c].data = Prompt(req[c].name, TruncateOthers(req[c].args))

\* C20 (as claimed): text of the client is in the prompt in Base64 only: no
\* double quote and no line break of an argument is a character of the
\* prompt (those of the templates are inside their fixed pieces).
C20_ClientTextOnlyEncoded ==
  \A c \in Calls :
    Started(c) =>
      \A i \in 1..Len(stdin[c].data) : stdin[c].data[i] \notin {"\"", "\n"}

\* The fixed text each tool's prompt starts with.
Preamble(name) ==
  CASE name = "explain_code" ->
         "You are super professional engineer. Please kindly provide a detailed explanation of the following Base64 encoded code:\n\n"
    [] name = "review_code" ->
         "You are super professional engineer. Please review the following Base64 encoded code. Consider code readability, efficiency, potential bugs, and security vulnerabilities.\n\nCode:\n"
    [] name = "fix_code" ->
         "You are super professional engineer. Please fix the following Base64 encoded code, addressing the issue described below:\n\nCode:\n"
    [] name = "edit_code" ->
         "You are super professional engineer. Please edit the following Base64 encoded code according to the instructions provided:\n\nCode:\n"
    [] name = "test_code" ->
         "You are super professional engineer. Please generate tests for the following Base64 encoded code.\n\nCode:\n"
    [] name = "simulate_command" ->
         "You are super professional engineer. Simulate the execution of the following command:\n\nCommand: "
    [] name = "your_own_query" -> "Query: "

\* What each template puts in the place of an absent optional argument
\* (your_own_query puts nothing).
Placeholder(name) ==
  CASE name = "explain_code" -> <<"No additional context provided.">>
    [] name = "review_code" -> <<"No specific focus areas provided.">>
    [] name = "test_code" -> <<"default">>
    [] name = "simulate_command" -> <<"No input provided.">>
    [] OTHER -> <<>>

\* text is a run of consecutive characters of prompt.
Contains(prompt, text) ==
  \E i \in 0..(Len(prompt) - Len(text)) :
    SubSeq(prompt, i + 1, i + Len(text)) = text

\* The request has arguments and every required one is a string.
Complete(c) ==
  /\ Known(c) /\ req[c].args.given
  /\ \A k \in Required(req[c].name) : req[c].args.a[k].def

\* C21: for each of the seven tools and arguments whose required keys are
\* all strings, building the prompt throws nothing and the runner is called
\* with a prompt that starts with the tool's preamble and holds every
\* supplied argument, code in Base64 and the others as they are, and the
\* template's placeholder for an absent optional argument.
C21_PromptOfCompleteArguments ==
  \A c \in Calls :
    Complete(c) =>
      LET name == req[c].name
          a == req[c].args.a
          prompt == stdin[c].data
      IN /\ ~PromptThrows(name, req[c].args).thrown
         /\ spawns[c] = 1
         /\ SubSeq(path[c], 1, 4) = <<"Received", "Validated", "PromptBuilt", "ProcessInvoked">>
         /\ Started(c) =>
              /\ prompt[1] = Preamble(name)
              /\ name \in CodeTools => decodeText(EncodedCode(prompt)) = a["code"].text
              /\ \A k \in DOMAIN a :
                   /\ (k # "code" /\ a[k].def) => Contains(prompt, a[k].text)
                   /\ (k \notin Required(name) /\ ~a[k].def) =>
                        Contains(prompt, Placeholder(name))

C21_Witness ==
  \E c \in Calls :
    /\ Started(c)
    /\ req[c] = [name |-> "explain_code",
                 args |-> Arguments([code |-> Str(<<"\"">>), context |-> Str(<<"\"">>)])]
    /\ stdin[c].data[Len(stdin[c].data)] = "\""

\* ---- C22
\* A code unit that is one half of a surrogate pair without the other half.
LoneSurrogate(text, i) ==
  \/ /\ text[i] \in HighSurrogates
     /\ ~(i < Len(text) /\ text[i + 1] \in LowSurrogates)
  \/ /\ text[i] \in LowSurrogates
     /\ ~(i > 1 /\ text[i - 1] \in HighSurrogates)

\* C22: for every text T, the empty one and those with quotes, line breaks
\* and control characters included, decodeText(encodeText(T)) is T.
C22_RoundTrip ==
  codec.stage = "decoded" => codec.decoded = codec.text

\* What the round trip does: every lone surrogate of the text comes back as
\* U+FFFD, every other code unit as it was.
RoundTripOfWellFormed ==
  codec.stage = "decoded" =>
    codec.decoded = [i \in 1..Len(codec.text) |->
                       IF LoneSurrogate(codec.text, i) THEN "U+FFFD"
                       ELSE codec.text[i]]

\* ---- C23
StageOrder == <<"Received", "Validated", "PromptBuilt", "ProcessInvoked">>
TerminalStages == {"Responded", "Failed"}

\* The stages s are in order: every stage is at its place in StageOrder, or
\* it is Responded or Failed and the last; Responded follows ProcessInvoked.
InOrder(s) ==
  \A i \in 1..Len(s) :
    IF s[i] \in TerminalStages
      THEN /\ i = Len(s)
           /\ i > 1
           /\ s[i] = "Responded" => s[i - 1] = "ProcessInvoked"
      ELSE i <= Len(StageOrder) /\ s[i] = StageOrder[i]

Terminal(s) == s # <<>> /\ s[Len(s)] \in TerminalStages

StagesInOrder ==
  \A c \in Calls :
    /\ InOrder(path[c])
    /\ stage[c] # "idle" <=> path[c] # <<>>
    /\ Done(c) <=> Terminal(path[c])
    /\ spawns[c] > 0 =>
         /\ Len(path[c]) >= 4
         /\ SubSeq(path[c], 1, 4) = StageOrder
         /\ Known(c)
         /\ ~PromptThrows(req[c].name, req[c].args).thrown
         /\ Started(c) => stdin[c].data = Prompt(req[c].name, req[c].args)
    /\ (Terminal(path[c]) /\ path[c][Len(path[c])] = "Responded") <=>
         (replies[c] # <<>> /\ replies[c][Len(replies[c])].kind = "result")

\* A step only adds stages, and adds none after Responded or Failed, nor
\* another reply.
StagesOnlyAdded ==
  \A c \in Calls :
    /\ Len(path[c]') >= Len(path[c])
    /\ SubSeq(path[c]', 1, Len(path[c])) = path[c]
    /\ Terminal(path[c]) => (path[c]' = path[c] /\ replies[c]' = replies[c])

\* C23: a request goes through Received, Validated, Prompt-Built and
\* Process-Invoked in this order, no stage before the one it follows (no
\* subprocess before the name is validated and the prompt built), Responded
\* only after Process-Invoked, and Responded and Failed are final: exactly
\* one of them ends a request.
C23_StagesInOrder == []StagesInOrder /\ [][StagesOnlyAdded]_vars

C23_Witness ==
  \E c \in Calls :
    /\ path[c] = StageOrder \o <<"Responded">>
    /\ spawns[c] = 1
    /\ Len(replies[c]) = 1

\* ---- C24
\* C24: every call that has invoked the process runner settles: with the
\* timer's callback and the delivery of events scheduled fairly, its
\* promise does not stay pending, whether or not the subprocess ever exits
\* or closes its streams.
C24_EveryCallSettles ==
  \A c \in ParIds :
    (stage[c] = "awaiting" /\ promise[c].state = "pending")
      ~> (promise[c].state # "pending" /\ Done(c))

\* The same for the handler alone, where nothing ends the server.
EveryCallSettlesWhileServing ==
  \A c \in Ids :
    (stage[c] = "awaiting" /\ promise[c].state = "pending")
      ~> (promise[c].state # "pending" /\ Done(c))

\* ---- C25
\* C25: a failure of the subprocess of one call ends that call only: in no
\* run does it end the server process, which goes on serving the calls that
\* are under way and those that come later.
C25_SubprocessFailureIsLocal ==
  \A c \in Calls : stage[c] # "idle" => server = "running"

\* ---- C26
\* C26: a subprocess whose close event carries anything but the number 0
\* (no code at all when a signal ended it, another number, the negated errno
\* of a failed spawn) is never reported as a success: the call gets no
\* response envelope, and when the close event is what settles the call,
\* its error is "Command failed with code <code>: <stderr>".
C26_OnlyCodeZeroSucceeds ==
  \A c \in Calls :
    /\ \A i \in 1..Len(replies[c]) :
         replies[c][i].kind = "result" => (pstate[c] = "closed" /\ exitCode[c] = "0")
    /\ (ClosedFirst(c) /\ exitCode[c] # "0") =>
         /\ promise[c] = [state |-> "rejected",
                          value |-> ExitError(exitCode[c], ErrText(c))]
         /\ replies[c] = << McpError(500, ExitError(exitCode[c], ErrText(c))) >>
         /\ path[c][Len(path[c])] = "Failed"

C26_Witness ==
  \E c \in Calls :
    /\ ClosedFirst(c)
    /\ exitCode[c] = "null"
    /\ sigterm[c] = "none" /\ kills[c] = 0
    /\ outLog[c] # <<>>
    /\ replies[c] = << McpError(500, ExitError("null", <<>>)) >>

\* ---- C27
\* C27: what the server writes to its own standard output is protocol
\* messages only: no log record, no diagnostic line.
C27_StdoutCarriesProtocolOnly == ownStdout \subseteq {"protocol"}

\* ---- C28
\* C28: when SIGINT ends the server, its connection has been closed before
\* the process exits.
C28_SigintClosesConnection ==
  (server = "exited" /\ exitCause = "SIGINT") => connection # "open"

====
